---- MODULE Spec2Model ----
(***************************************************************************)
(* A model of src/main.rs of hello_ggez: the snake (head segment, trail,   *)
(* length budget), the fruit, the explosion and the three-state game       *)
(* machine driven by the ggez handlers update, draw, key_down_event and    *)
(* key_up_event.                                                           *)
(*                                                                         *)
(* The program computes in f32.  The model is in fixed point:              *)
(*   speed and lengths   in tenths              (1.0  is 10)               *)
(*   angles              in milliradians        (0.01 * speed is `speed`)  *)
(*   heading components  in tenths              (-1.0 is -10)              *)
(*   positions, radii    in hundredths of pixel (heading * speed)          *)
(*   clock readings      in tenths of a second                             *)
(* An Option is a sequence of length at most one: None is << >>.           *)
(***************************************************************************)
EXTENDS Integers, Sequences, FiniteSets

VARIABLES play_state, snake, direction, accelerate, fruit, dead_timer,
          explosion, now, run, phase, screen, last, frames, keys, arg, out

vars == <<play_state, snake, direction, accelerate, fruit, dead_timer,
          explosion, now, run, phase, screen, last, frames, keys, arg, out>>

(***************************************************************************)
(* play_state .. explosion are the fields of State.  now, run, screen and  *)
(* last are described with the handlers; phase is the event loop's place;  *)
(* frames and keys count the updates and key events explored; arg and out  *)
(* hold the arguments and results of a function applied on its own.        *)
(***************************************************************************)

(***************************************************************************)
(* Bounds of the exploration.                                              *)
(***************************************************************************)
\* updates explored from an initial state
MaxFrames == 6
\* key events explored from an initial state
MaxKeys == 2
\* pops one explosion holds
MaxPops == 1
\* the bounds given to wrap lie in -WrapSpan .. WrapSpan
WrapSpan == 4
\* steps an explosion on its own is run for
MaxSteps == 125
\* updates, each a fruit pickup, replayed to fill the length budget
FeastFrames == 99
\* updates replayed with the snake at rest to pile its trail up
HeapFrames == 998
\* updates a game is followed for while it is Dead
LiveFrames == 35

(***************************************************************************)
(* Program constants, in the model's units.                                *)
(***************************************************************************)
InitialSpeed == 10
SpeedStep == 1
MinSpeed == 0
MaxSpeed == 40
DefaultLength == 1000
GrowLength == 1000
MinLength == 0
MaxLength == 100000
SkipCount == 100
NumImages == 7
PopSteps == 60
CooldownSecs == 2
JitterSpan == 2000

(***************************************************************************)
(* What the environment provides: the window, the two image sizes, the     *)
(* resolution of the clock.                                                *)
(***************************************************************************)
ScreenW == 4000
ScreenH == 3000
HeadRadius == 200
FruitRadius == 300
TicksPerSec == 10
HeadingOne == 10
Pi == 3142
TwoPi == 6283
HalfPi == 1571

None == << >>
Some(x) == << x >>

PlayStates == {"Space", "Play", "Dead"}
Directions == {"Left", "Right", "Straight"}
Speeds == {"Accelerate", "Brake", "Coast"}
KeyCodes == {"Space", "A", "D", "W", "S", "Escape", "X"}

(***************************************************************************)
(* Arithmetic of the source language.                                      *)
(***************************************************************************)
\* i32 division truncates toward zero
TruncDiv(a, b) == IF a >= 0 THEN a \div b ELSE -((-a) \div b)

\* na::clamp
Clamp(v, lo, hi) == IF v < lo THEN lo ELSE IF v > hi THEN hi ELSE v

\* sin on [0, Pi] in tenths (Bhaskara's rational form, rounded to nearest)
SinArc(x) ==
    LET p == x * (Pi - x)
        num == HeadingOne * 16 * p
        den == 5 * Pi * Pi - 4 * p
    IN  (2 * num + den) \div (2 * den)

Sin(a) ==
    LET x == a % TwoPi
    IN  IF x <= Pi THEN SinArc(x) ELSE -SinArc(x - Pi)

Cos(a) == Sin(a + HalfPi)

\* wrap with the two shifts exchanged (a variant, to compare against)
wrapAway(a, min, max) ==
    IF a < min THEN a - (max - min)
    ELSE IF a > max THEN a + (max - min)
    ELSE a

\* fn wrap
wrap(a, min, max) ==
    IF a < min THEN a + (max - min)
    ELSE IF a > max THEN a - (max - min)
    ELSE a

\* fn collide
collide(a, ra, b, rb) ==
    LET d == ra + rb
        dx == a.x - b.x
        dy == a.y - b.y
    IN  dx * dx + dy * dy < d * d

(***************************************************************************)
(* Segment                                                                 *)
(***************************************************************************)
SegmentNew(pos, angle, speed) == [pos |-> pos, angle |-> angle, speed |-> speed]

\* Rotation2::new(angle) * (-1, 0)
heading(s) == [x |-> -Cos(s.angle), y |-> -Sin(s.angle)]

\* pos += h * speed, for the heading h
Moved(s, h) ==
    [s EXCEPT !.pos = [x |-> s.pos.x + h.x * s.speed,
                       y |-> s.pos.y + h.y * s.speed]]

translate(s) == Moved(s, heading(s))

SegmentWrap(s, min, max) ==
    [s EXCEPT !.pos = [x |-> wrap(s.pos.x, min.x, max.x),
                       y |-> wrap(s.pos.y, min.y, max.y)]]

turn(s, dir) ==
    CASE dir = "Left" -> [s EXCEPT !.angle = s.angle - s.speed]
      [] dir = "Right" -> [s EXCEPT !.angle = s.angle + s.speed]
      [] OTHER -> s

SpeedAfter(speed, accel) ==
    CASE accel = "Accelerate" -> speed + SpeedStep
      [] accel = "Brake" -> speed - SpeedStep
      [] OTHER -> speed

\* accelerate without its clamp (a variant, to compare against)
accelerateFree(s, accel) == [s EXCEPT !.speed = SpeedAfter(s.speed, accel)]

accelerateSeg(s, accel) ==
    [s EXCEPT !.speed = Clamp(SpeedAfter(s.speed, accel), MinSpeed, MaxSpeed)]

SegmentUpdate(s, min, max, dir, accel) ==
    accelerateSeg(turn(SegmentWrap(translate(s), min, max), dir), accel)

(***************************************************************************)
(* Snake                                                                   *)
(***************************************************************************)
SnakeNew ==
    [nose |-> [x |-> 0, y |-> 0],
     head_radius |-> HeadRadius,
     head |-> SegmentNew([x |-> ScreenW \div 2, y |-> ScreenH \div 2],
                         0, InitialSpeed),
     body |-> << >>,
     desired_length |-> DefaultLength,
     current_length |-> 0]

SnakeCollide(s, b, rb) == collide(s.nose, s.head_radius, b, rb)

\* the closure of collide_self without its index test (a variant, to compare
\* against)
SelfHitAny(s, i) ==
    collide(s.nose, s.head_radius,
            s.body[Len(s.body) - i].pos, s.head_radius \div 2)

\* the closure of collide_self, for the i-th entry counted from the newest
SelfHitAt(s, i) ==
    /\ i > SkipCount
    /\ collide(s.nose, s.head_radius,
               s.body[Len(s.body) - i].pos, s.head_radius \div 2)

collide_self(s) == \E i \in 0 .. Len(s.body) - 1 : SelfHitAt(s, i)

\* segments answering None (a variant, to compare against)
segmentsNone(s) == None

\* make_contiguous leaves one slice, so the result is always Some
segments(s) == Some(s.body)

\* the loop of Snake::update as an if: at most one entry leaves (a variant, to
\* compare against)
EvictOnce(body, cur, desired, popped) ==
    IF cur > desired /\ body # << >>
    THEN [body |-> Tail(body), current_length |-> cur - Head(body).speed,
          popped |-> popped + 1, spin |-> FALSE]
    ELSE [body |-> body, current_length |-> cur, popped |-> popped,
          spin |-> FALSE]

\* the loop of Snake::update with pop_back for pop_front (a variant, to
\* compare against)
RECURSIVE EvictNewest(_, _, _, _)
EvictNewest(body, cur, desired, popped) ==
    IF cur > desired
    THEN IF body # << >>
         THEN EvictNewest(SubSeq(body, 1, Len(body) - 1),
                          cur - body[Len(body)].speed, desired, popped + 1)
         ELSE [body |-> body, current_length |-> cur, popped |-> popped,
               spin |-> TRUE]
    ELSE [body |-> body, current_length |-> cur, popped |-> popped,
          spin |-> FALSE]

\* the loop of Snake::update popping without subtracting (a variant, to
\* compare against): once entered it pops every entry and its condition
\* still holds
EvictUncounted(body, cur, desired, popped) ==
    IF cur > desired
    THEN [body |-> << >>, current_length |-> cur,
          popped |-> popped + Len(body), spin |-> TRUE]
    ELSE [body |-> body, current_length |-> cur, popped |-> popped,
          spin |-> FALSE]

\* the while loop of Snake::update; spin: the loop cannot end (nothing is
\* left to pop and the length is still above the budget)
RECURSIVE Evict(_, _, _, _)
Evict(body, cur, desired, popped) ==
    IF cur > desired
    THEN IF body # << >>
         THEN Evict(Tail(body), cur - Head(body).speed, desired, popped + 1)
         ELSE [body |-> body, current_length |-> cur, popped |-> popped,
               spin |-> TRUE]
    ELSE [body |-> body, current_length |-> cur, popped |-> popped,
          spin |-> FALSE]

\* head.pos + heading * head_radius, for the heading h
NoseAt(pos, h, radius) ==
    [x |-> pos.x + (h.x * radius) \div HeadingOne,
     y |-> pos.y + (h.y * radius) \div HeadingOne]

\* the last statement of Snake::update
Renose(s) == [s EXCEPT !.nose = NoseAt(s.head.pos, heading(s.head), s.head_radius)]

\* the end of Snake::update: the loop's result e stored, the head advanced
Advance(s, e, w, h, dir, accel) ==
    [snake |-> Renose([s EXCEPT
                         !.body = e.body,
                         !.current_length = e.current_length,
                         !.head = SegmentUpdate(@, [x |-> 0, y |-> 0],
                                                [x |-> w, y |-> h],
                                                dir, accel)]),
     popped |-> e.popped,
     spin |-> e.spin]

\* Snake::update without the addition to current_length (a variant, to
\* compare against)
SnakeUpdateUncounted(s, w, h, dir, accel) ==
    Advance(s,
            Evict(Append(s.body, s.head), s.current_length, s.desired_length, 0),
            w, h, dir, accel)

\* Snake::update pushing the head after advancing it (a variant, to compare
\* against)
SnakeUpdateLate(s, w, h, dir, accel) ==
    Advance(s,
            Evict(Append(s.body,
                         SegmentUpdate(s.head, [x |-> 0, y |-> 0],
                                       [x |-> w, y |-> h], dir, accel)),
                  s.current_length + s.head.speed, s.desired_length, 0),
            w, h, dir, accel)

\* Snake::update; the result carries the snake and what the loop did
SnakeUpdate(s, w, h, dir, accel) ==
    Advance(s,
            Evict(Append(s.body, s.head), s.current_length + s.head.speed,
                  s.desired_length, 0),
            w, h, dir, accel)

\* increase_length without its clamp (a variant, to compare against)
increaseFree(s, length) ==
    [s EXCEPT !.desired_length = s.desired_length + length]

increase_length(s, length) ==
    [s EXCEPT !.desired_length =
        Clamp(s.desired_length + length, MinLength, MaxLength)]

(***************************************************************************)
(* Fruit.  A random f32 of [0, 1) is a number of thousandths, a random     *)
(* integer is itself.                                                      *)
(***************************************************************************)
RandOne == 1000
FruitKinds == 5

\* Fruit::new, from the three random values it draws
FruitNew(w, h, r) ==
    [pos |-> [x |-> (r.x * w) \div RandOne, y |-> (r.y * h) \div RandOne],
     n |-> r.n % FruitKinds]

\* the random values explored: a fruit on the row the snake starts on, a fruit
\* away from it
FruitDraws == {[x |-> 250, y |-> 500, n |-> 7], [x |-> 750, y |-> 100, n |-> 0]}
FarFruit == [x |-> 750, y |-> 100, n |-> 0]

(***************************************************************************)
(* Explosion                                                               *)
(***************************************************************************)
\* i32 remainder has the sign of the dividend
Rem(a, b) == a - b * TruncDiv(a, b)

PickModulus == 10
DelayRange == 60

PopNew(s, r) ==
    [pos |-> [x |-> s.pos.x + (JitterSpan * (r.x - RandOne \div 2)) \div RandOne,
              y |-> s.pos.y + (JitterSpan * (r.y - RandOne \div 2)) \div RandOne],
     delay |-> r.delay % DelayRange]

\* Explosion::new; rnd[i] holds the random values drawn for the i-th segment
ExplosionNew(segs, rnd) ==
    LET drawn == [i \in 1 .. Len(segs) |-> [s |-> segs[i], r |-> rnd[i]]]
        Picked(d) == Rem(d.r.pick, PickModulus) < 1
        picked == SelectSeq(drawn, Picked)
    IN  [pops |-> [k \in 1 .. Len(picked) |-> PopNew(picked[k].s, picked[k].r)],
         step |-> 0]

ExplosionUpdate(e) == [e EXCEPT !.step = e.step + 1]

\* the frame computed as if the animation repeated (a variant, to compare
\* against)
PopFrameLooped(step, delay) ==
    TruncDiv((step - delay) * NumImages, PopSteps) % NumImages

\* the frame Explosion::draw computes for a pop
PopFrame(step, delay) == TruncDiv((step - delay) * NumImages, PopSteps)

Rendered(step, delay) ==
    LET frame == PopFrame(step, delay)
    IN  frame >= 0 /\ frame < NumImages

\* Explosion::draw: the sprites added to each image's batch
ExplosionDraw(e) ==
    [f \in 0 .. NumImages - 1 |->
        {i \in 1 .. Len(e.pops) : PopFrame(e.step, e.pops[i].delay) = f}]

\* random values explored for a segment that is picked, and for one that is not
PickedDraws ==
    {[pick |-> -13, x |-> 0, y |-> 0, delay |-> 0],
     [pick |-> 0, x |-> 500, y |-> 500, delay |-> 5],
     [pick |-> 10, x |-> 999, y |-> 999, delay |-> 119]}
SkippedDraw == [pick |-> 7, x |-> 0, y |-> 0, delay |-> 0]

\* segments of n an explosion may pick: the oldest, the middle one, the newest
Candidates(n) == {1, (n + 1) \div 2, n} \ {0}

\* the random values of one Explosion::new over n segments
RndChoices(n) ==
    {[i \in 1 .. n |-> IF i \in on THEN r ELSE SkippedDraw] :
        on \in {c \in SUBSET Candidates(n) : Cardinality(c) <= MaxPops},
        r \in PickedDraws}

(***************************************************************************)
(* State and its handlers.  A game record g holds the fields of State, and *)
(*   now     the last reading of timer::time_since_start                   *)
(*   run     "running"; "quit" after event::quit; "panic" after a failed   *)
(*           unwrap; "hung" when an update cannot return                   *)
(*   screen  what the last draw put on the screen                          *)
(*   last    a record of the last handler that ran (for stating the        *)
(*           properties; no handler reads it)                              *)
(***************************************************************************)
Blank == [snake |-> FALSE, batches |-> None, fruit |-> None, overlay |-> FALSE]

NoEvent ==
    [ev |-> "new", key |-> "", from |-> "Space", hit |-> FALSE,
     self |-> FALSE, spawned |-> FALSE, elapsed |-> 0, secs |-> 0,
     reset |-> FALSE, popped |-> 0, desired0 |-> DefaultLength,
     speed0 |-> InitialSpeed]

\* State::new
StateNew(r) ==
    [play_state |-> "Space",
     snake |-> SnakeNew,
     direction |-> "Straight",
     accelerate |-> "Coast",
     fruit |-> FruitNew(ScreenW, ScreenH, r),
     dead_timer |-> None,
     explosion |-> None,
     now |-> 0,
     run |-> "running",
     screen |-> Blank,
     last |-> NoEvent]

\* Duration::as_secs: the whole seconds of a duration
as_secs(d) == d \div TicksPerSec

\* the test of the Dead branch of update, given the two clock readings
Expired(t, since) == as_secs(t - since) > CooldownSecs

\* the guard of the Play to Dead branch of update
Dies(state, s) == state = "Play" /\ collide_self(s)

\* growth in every play state (a variant, to compare against)
GrowsAlways(state) == TRUE

\* the guard of the growth on a fruit pickup
Grows(state) == state = "Play"

(***************************************************************************)
(* State::update, statement by statement: each step takes the game record  *)
(* and yields the next.  dt1, dt2: the time from the last clock reading to *)
(* the reading of the Play branch and to the reading of the Dead branch;    *)
(* r: the random values of a Fruit::new; rnd: those of an Explosion::new.   *)
(***************************************************************************)
\* self.snake.update(...): the snake u.snake stored
Stepped(g, u) ==
    [g EXCEPT !.snake = u.snake,
              !.run = IF u.spin THEN "hung" ELSE @,
              !.last = [NoEvent EXCEPT !.ev = "update",
                                       !.from = g.play_state,
                                       !.popped = u.popped,
                                       !.desired0 = g.snake.desired_length,
                                       !.speed0 = g.snake.head.speed]]

MoveSnake(g) ==
    Stepped(g, SnakeUpdate(g.snake, ScreenW, ScreenH, g.direction, g.accelerate))

\* what the two collision tests of this update would answer (noted for
\* stating the properties)
Observe(g) ==
    [g EXCEPT !.last.hit = SnakeCollide(g.snake, g.fruit.pos, FruitRadius),
              !.last.self = collide_self(g.snake)]

\* if self.snake.collide(&self.fruit.pos, ...) { ... }
EatFruit(g, r) ==
    IF SnakeCollide(g.snake, g.fruit.pos, FruitRadius)
    THEN [g EXCEPT !.fruit = FruitNew(ScreenW, ScreenH, r),
                   !.snake = IF Grows(g.play_state)
                             THEN increase_length(@, GrowLength) ELSE @,
                   !.last.spawned = TRUE]
    ELSE g

\* the explosion of the Play to Dead branch
Burst(g, segs, rnd) ==
    IF segs # None THEN [g EXCEPT !.explosion = Some(ExplosionNew(segs[1], rnd))]
    ELSE g

\* the Play to Dead branch without the timestamp (a variant, to compare
\* against)
CollapseUnstamped(g, dt1, rnd) ==
    IF Dies(g.play_state, g.snake)
    THEN Burst([g EXCEPT !.play_state = "Dead", !.now = @ + dt1],
               segments(g.snake), rnd)
    ELSE g

\* if self.play_state == PlayState::Play && self.snake.collide_self() { ... }
Collapse(g, dt1, rnd) ==
    IF Dies(g.play_state, g.snake)
    THEN Burst([g EXCEPT !.play_state = "Dead",
                         !.now = @ + dt1,
                         !.dead_timer = Some(g.now + dt1)],
               segments(g.snake), rnd)
    ELSE g

\* the Dead branch without the new snake (a variant, to compare against)
CoolKeepSnake(g, t) ==
    IF g.dead_timer = None THEN [g EXCEPT !.run = "panic"]
    ELSE IF Expired(t, g.dead_timer[1])
    THEN [g EXCEPT !.play_state = "Space",
                   !.dead_timer = None,
                   !.explosion = None,
                   !.now = t,
                   !.last.elapsed = t - g.dead_timer[1],
                   !.last.secs = as_secs(t - g.dead_timer[1]),
                   !.last.reset = TRUE]
    ELSE [g EXCEPT !.now = t,
                   !.last.elapsed = t - g.dead_timer[1],
                   !.last.secs = as_secs(t - g.dead_timer[1])]

\* the Dead branch taking a new timestamp at every update that does not end
\* the cooldown (a variant, to compare against)
CoolRestamp(g, t) ==
    IF g.dead_timer = None THEN [g EXCEPT !.run = "panic"]
    ELSE IF Expired(t, g.dead_timer[1])
    THEN [g EXCEPT !.play_state = "Space",
                   !.dead_timer = None,
                   !.explosion = None,
                   !.snake = SnakeNew,
                   !.now = t,
                   !.last.elapsed = t - g.dead_timer[1],
                   !.last.secs = as_secs(t - g.dead_timer[1]),
                   !.last.reset = TRUE]
    ELSE [g EXCEPT !.now = t,
                   !.dead_timer = Some(t),
                   !.last.elapsed = t - g.dead_timer[1],
                   !.last.secs = as_secs(t - g.dead_timer[1])]

\* the body of the Dead branch, at the clock reading t
Cool(g, t) ==
    IF g.dead_timer = None THEN [g EXCEPT !.run = "panic"]
    ELSE IF Expired(t, g.dead_timer[1])
    THEN [g EXCEPT !.play_state = "Space",
                   !.dead_timer = None,
                   !.explosion = None,
                   !.snake = SnakeNew,
                   !.now = t,
                   !.last.elapsed = t - g.dead_timer[1],
                   !.last.secs = as_secs(t - g.dead_timer[1]),
                   !.last.reset = TRUE]
    ELSE [g EXCEPT !.now = t,
                   !.last.elapsed = t - g.dead_timer[1],
                   !.last.secs = as_secs(t - g.dead_timer[1])]

\* if self.play_state == PlayState::Dead { ... }
Cooldown(g, dt2) ==
    IF g.play_state = "Dead" THEN Cool(g, g.now + dt2) ELSE g

\* if let Some(explosion) = &mut self.explosion { explosion.update(ctx)?; }
Animate(g) ==
    IF g.explosion # None
    THEN [g EXCEPT !.explosion = Some(ExplosionUpdate(@[1]))]
    ELSE g

\* State::update
StateUpdate(g, dt1, dt2, r, rnd) ==
    Animate(Cooldown(Collapse(EatFruit(Observe(MoveSnake(g)), r), dt1, rnd),
                     dt2))

\* the match of key_down_event on the key, while playing
Steer(g, keycode) ==
    CASE keycode = "A" -> [g EXCEPT !.direction = "Left"]
      [] keycode = "D" -> [g EXCEPT !.direction = "Right"]
      [] keycode = "W" -> [g EXCEPT !.accelerate = "Accelerate"]
      [] keycode = "S" -> [g EXCEPT !.accelerate = "Brake"]
      [] OTHER -> [g EXCEPT !.direction = "Straight", !.accelerate = "Coast"]

\* the match of key_down_event with the start key honoured in every play
\* state (a variant, to compare against)
KeyMatchAnywhere(g, keycode) ==
    IF keycode = "Space" THEN [g EXCEPT !.play_state = "Play"]
    ELSE IF g.play_state = "Play" THEN Steer(g, keycode)
    ELSE g

\* the match of key_down_event on the play state
KeyMatch(g, keycode) ==
    CASE g.play_state = "Space" ->
            IF keycode = "Space" THEN [g EXCEPT !.play_state = "Play"] ELSE g
      [] g.play_state = "Play" -> Steer(g, keycode)
      [] OTHER -> g

\* State::key_down_event
key_down_event(g, keycode) ==
    LET q == IF keycode = "Escape" THEN [g EXCEPT !.run = "quit"] ELSE g
    IN  [KeyMatch(q, keycode) EXCEPT
           !.last = [NoEvent EXCEPT !.ev = "key_down", !.key = keycode,
                                    !.from = g.play_state,
                                    !.desired0 = g.snake.desired_length]]

\* State::key_up_event
key_up_event(g, keycode) ==
    [g EXCEPT !.direction = "Straight", !.accelerate = "Coast",
              !.last = [NoEvent EXCEPT !.ev = "key_up", !.key = keycode,
                                       !.from = g.play_state,
                                       !.desired0 = g.snake.desired_length]]

\* State::draw: what is put on the screen
draw(g) ==
    [g EXCEPT !.screen =
        [snake |-> g.play_state # "Dead",
         batches |-> IF g.explosion # None
                     THEN Some(ExplosionDraw(g.explosion[1])) ELSE None,
         fruit |-> Some(g.fruit),
         overlay |-> g.play_state = "Space"]]

(***************************************************************************)
(* The event loop (event::run): while the context continues, it delivers   *)
(* the pending key events, calls update, then draw.                        *)
(***************************************************************************)
G ==
    [play_state |-> play_state, snake |-> snake, direction |-> direction,
     accelerate |-> accelerate, fruit |-> fruit, dead_timer |-> dead_timer,
     explosion |-> explosion, now |-> now, run |-> run, screen |-> screen,
     last |-> last]

Becomes(g) ==
    /\ play_state' = g.play_state
    /\ snake' = g.snake
    /\ direction' = g.direction
    /\ accelerate' = g.accelerate
    /\ fruit' = g.fruit
    /\ dead_timer' = g.dead_timer
    /\ explosion' = g.explosion
    /\ now' = g.now
    /\ run' = g.run
    /\ screen' = g.screen
    /\ last' = g.last

\* time between two clock readings, in ticks
DtSet == {1, 10, 19}

\* the inputs an update reads, given the game m as its snake step leaves it:
\* clock readings if it looks at the clock, random values if it makes a fruit
\* or an explosion.  The update that enters Dead reads the clock twice; its
\* second reading is taken in the same tick as the first.
Needs(m) ==
    [dt1 : IF m.play_state = "Play" /\ m.last.self THEN DtSet ELSE {0},
     dt2 : IF m.play_state = "Dead" THEN DtSet ELSE {0},
     r : IF m.last.hit THEN FruitDraws ELSE {FarFruit},
     rnd : IF m.play_state = "Play" /\ m.last.self
           THEN RndChoices(Len(m.snake.body)) ELSE {<< >>}]

UpdateInputs(g) == Needs(Observe(MoveSnake(g)))

\* random values of an Explosion::new that picks no segment of n
NoPicks(n) == [i \in 1 .. n |-> SkippedDraw]

\* one scripted event applied to g; an update is followed by its draw, reads
\* the clock in the tick of the last reading, puts a new fruit where the
\* script says and picks no segment for an explosion
Apply(g, e) ==
    CASE e.ev = "key_down" -> key_down_event(g, e.key)
      [] e.ev = "key_up" -> key_up_event(g, e.key)
      [] OTHER -> draw(StateUpdate(g, 0, 0, e.r,
                                   NoPicks(Len(g.snake.body) + 1)))

\* the events lo .. hi of a script applied to g in order (by halves, the
\* result of the first half bound before the second is entered: it keeps the
\* evaluation shallow)
RECURSIVE Replay(_, _, _, _)
Replay(g, script, lo, hi) ==
    IF lo > hi THEN g
    ELSE IF lo = hi THEN Apply(g, script[lo])
    ELSE LET mid == (lo + hi) \div 2
         IN  CHOOSE r \in {Replay(m, script, mid + 1, hi) :
                              m \in {Replay(g, script, lo, mid)}} : TRUE

Run(g, script) == Replay(g, script, 1, Len(script))

Press(k) == [ev |-> "key_down", key |-> k]
Updates(n) == [i \in 1 .. n |-> [ev |-> "update", key |-> "", r |-> FarFruit]]

\* frames replayed to reach the two later starting points
DriftFrames == 100
StallFrames == 106
SprintFrames == 30

\* The states the exploration starts from: the game as constructed, with the
\* first fruit at either place; the game after idling before the start until
\* the trail fills its budget; the game started and braked to a stop, a few
\* updates before the stopped trail reaches the nose's test; the game started
\* and accelerated to the top speed.
Starts ==
    {StateNew(r) : r \in FruitDraws}
    \cup {Run(StateNew(FarFruit), Updates(DriftFrames))}
    \cup {Run(StateNew(FarFruit),
              << Press("Space"), Press("S") >> \o Updates(StallFrames))}
    \cup {Run(StateNew(FarFruit),
              << Press("Space"), Press("W") >> \o Updates(SprintFrames))}

Is(g) ==
    /\ play_state = g.play_state
    /\ snake = g.snake
    /\ direction = g.direction
    /\ accelerate = g.accelerate
    /\ fruit = g.fruit
    /\ dead_timer = g.dead_timer
    /\ explosion = g.explosion
    /\ now = g.now
    /\ run = g.run
    /\ screen = g.screen
    /\ last = g.last

Init ==
    /\ \E g \in Starts : Is(g)
    /\ phase = "events"
    /\ frames = 0
    /\ keys = 0
    /\ arg = None
    /\ out = None

KeyDown ==
    /\ phase = "events" /\ run = "running" /\ keys < MaxKeys
    /\ \E k \in KeyCodes : Becomes(key_down_event(G, k))
    /\ keys' = keys + 1
    /\ UNCHANGED <<phase, frames, arg, out>>

KeyUp ==
    /\ phase = "events" /\ run = "running" /\ keys < MaxKeys
    /\ \E k \in {"W", "Space"} : Becomes(key_up_event(G, k))
    /\ keys' = keys + 1
    /\ UNCHANGED <<phase, frames, arg, out>>

Update ==
    /\ phase = "events" /\ run = "running" /\ frames < MaxFrames
    /\ \E in \in UpdateInputs(G) : Becomes(StateUpdate(G, in.dt1, in.dt2, in.r, in.rnd))
    /\ frames' = frames + 1
    /\ phase' = "draw"
    /\ UNCHANGED <<keys, arg, out>>

Draw ==
    /\ phase = "draw" /\ run = "running"
    /\ Becomes(draw(G))
    /\ phase' = "events"
    /\ UNCHANGED <<frames, keys, arg, out>>

Next == KeyDown \/ KeyUp \/ Update \/ Draw

Spec == Init /\ [][Next]_vars

(***************************************************************************)
(* The same event loop, started also from a game whose snake has a budget  *)
(* of 0 (the game itself never makes one: the budget starts at 100.0 and   *)
(* only grows).                                                            *)
(***************************************************************************)
NoBudget == [StateNew(FarFruit) EXCEPT !.snake.desired_length = MinLength]

InitBudget ==
    /\ \E g \in Starts \cup {NoBudget} : Is(g)
    /\ phase = "events"
    /\ frames = 0
    /\ keys = 0
    /\ arg = None
    /\ out = None

SpecBudget == InitBudget /\ [][Next]_vars

(***************************************************************************)
(* fn wrap applied on its own: to every a within one period of a range     *)
(* min < max, and then to its own result.                                  *)
(***************************************************************************)
WrapArgs ==
    {[a |-> a, min |-> mn, max |-> mx] :
        mn \in -WrapSpan .. WrapSpan, mx \in -WrapSpan .. WrapSpan,
        a \in -3 * WrapSpan .. 3 * WrapSpan}

InitWrap ==
    /\ Is(StateNew(FarFruit))
    /\ phase = "events"
    /\ frames = 0
    /\ keys = 0
    /\ arg \in {w \in WrapArgs : /\ w.min < w.max
                                 /\ w.min - (w.max - w.min) <= w.a
                                 /\ w.a <= w.max + (w.max - w.min)}
    /\ out = None

WrapFirst ==
    /\ out = None
    /\ out' = << wrap(arg.a, arg.min, arg.max) >>
    /\ UNCHANGED <<play_state, snake, direction, accelerate, fruit, dead_timer,
                   explosion, now, run, phase, screen, last, frames, keys, arg>>

WrapAgain ==
    /\ Len(out) = 1
    /\ out' = Append(out, wrap(out[1], arg.min, arg.max))
    /\ UNCHANGED <<play_state, snake, direction, accelerate, fruit, dead_timer,
                   explosion, now, run, phase, screen, last, frames, keys, arg>>

NextWrap == WrapFirst \/ WrapAgain

SpecWrap == InitWrap /\ [][NextWrap]_vars

(***************************************************************************)
(* Properties.  AfterUpdate: the last handler that ran was State::update.  *)
(***************************************************************************)
AfterUpdate == last.ev = "update"

\* C1: after every Snake::update the accumulated length is within the budget,
\* current_length <= desired_length (the update returned: the loop did not
\* spin), and with a budget of 0 an update that pushed a moving head leaves
\* the trail empty.
C1_LengthWithinBudget ==
    /\ snake.current_length <= snake.desired_length
    /\ run # "hung"
    /\ (AfterUpdate /\ ~last.reset /\ snake.desired_length = 0
          /\ last.speed0 > 0
        => snake.body = << >>)

\* C1 happens: an update pushed a head faster than the entries it displaced,
\* so that the loop popped more than one entry
C1_Witness ==
    /\ AfterUpdate
    /\ last.popped >= 2
    /\ snake.current_length <= snake.desired_length
    /\ snake.body # << >>

\* C2 as claimed: an update made while Dead leaves the state Space when more
\* than 2 seconds have passed since the Dead transition's timestamp, and
\* leaves it Dead when at most 2 seconds have passed.
C2_CooldownAsClaimed ==
    AfterUpdate /\ last.from = "Dead"
    => IF last.elapsed > CooldownSecs * TicksPerSec
       THEN play_state = "Space"
       ELSE play_state = "Dead"

\* C3 as claimed: what is on the screen after a draw shows a pop of delay d at
\* explosion step s if and only if d <= s < d + 60.
C3_GatingAsClaimed ==
    phase = "events" /\ explosion # None /\ screen.batches # None
    => \A i \in 1 .. Len(explosion[1].pops) :
          (\E f \in 0 .. NumImages - 1 : i \in screen.batches[1][f])
          <=> /\ explosion[1].pops[i].delay <= explosion[1].step
              /\ explosion[1].step < explosion[1].pops[i].delay + PopSteps

\* some entry of the trail lies within reach of the nose
Overlaps(s) ==
    \E i \in 1 .. Len(s.body) :
        collide(s.nose, s.head_radius, s.body[i].pos, s.head_radius \div 2)

\* C4: collide_self is false for every trail of fewer than 101 segments,
\* wherever the nose and the segments are.
C4_ShortTrailNeverHits ==
    Len(snake.body) < SkipCount + 1 => ~collide_self(snake)

\* C4 happens: a trail of exactly 100 segments, one of which the nose
\* overlaps, and collide_self is false
C4_Witness ==
    /\ AfterUpdate
    /\ frames >= 1
    /\ Len(snake.body) = SkipCount
    /\ Overlaps(snake)
    /\ ~collide_self(snake)

\* the trail after a step is what is left of the old trail with the head
\* appended, once k entries have left its front
SuffixAfter(k) ==
    snake'.body = SubSeq(Append(snake.body, snake.head), k + 1,
                         Len(snake.body) + 1)

FifoStep ==
    IF frames' # frames
    THEN IF last'.reset THEN snake'.body = << >>
         ELSE \E k \in 0 .. Len(snake.body) + 1 : SuffixAfter(k)
    ELSE snake'.body = snake.body

\* C5: the trail is a FIFO: an update appends the head at the back and removes
\* entries only from the front, so the trail after it is a suffix of the trail
\* before it with the head appended; no other handler touches the trail, and
\* a reset empties it.
C5_TrailIsFifo == [][FifoStep]_vars

\* C5 happens: an update removed entries from a trail whose oldest and newest
\* entries differ
C5_Witness ==
    /\ AfterUpdate
    /\ last.popped >= 1
    /\ Len(snake.body) >= 2
    /\ snake.body[1] # snake.body[Len(snake.body)]

\* C6: the head's speed stays within [0.0, 4.0] whatever accelerate calls are
\* made, and so does the speed of every segment stored in the trail.
C6_SpeedInRange ==
    /\ snake.head.speed >= MinSpeed
    /\ snake.head.speed <= MaxSpeed
    /\ \A i \in 1 .. Len(snake.body) :
          snake.body[i].speed >= MinSpeed /\ snake.body[i].speed <= MaxSpeed

\* C6 happens: a Brake applied to a head already at 0.0 left it at 0.0
C6_Witness ==
    /\ AfterUpdate
    /\ frames >= 1
    /\ last.from = "Play"
    /\ accelerate = "Brake"
    /\ snake.head.speed = MinSpeed
    /\ snake.body # << >>
    /\ snake.body[Len(snake.body)].speed = MinSpeed

\* wrap is idempotent on the results computed so far
WrapIdempotent == Len(out) = 2 => out[2] = out[1]

\* C7 as claimed: for min < max and a within one period of the range, wrap's
\* result lies in [min, max), and wrapping it again changes nothing.
C7_HalfOpenAsClaimed ==
    /\ \A i \in 1 .. Len(out) : arg.min <= out[i] /\ out[i] < arg.max
    /\ WrapIdempotent

\* C7: for min < max and a within one period of the range, wrap's result lies
\* in the closed interval [min, max], and wrapping it again changes nothing.
C7_WrapClosedRange ==
    /\ \A i \in 1 .. Len(out) : arg.min <= out[i] /\ out[i] <= arg.max
    /\ WrapIdempotent

\* C7 happens: an a above the range was wrapped onto max itself, and wrapped
\* again
C7_Witness ==
    /\ Len(out) = 2
    /\ arg.a > arg.max
    /\ out[1] = arg.max
    /\ out[2] = arg.max

GrowthStep ==
    frames' # frames
    => /\ last'.hit => /\ last'.spawned
                       /\ fruit' \in {FruitNew(ScreenW, ScreenH, r) : r \in FruitDraws}
       /\ ~last'.hit => fruit' = fruit
       /\ ~last'.reset =>
             snake'.desired_length =
                IF last'.hit /\ play_state = "Play"
                THEN Clamp(snake.desired_length + GrowLength, MinLength, MaxLength)
                ELSE snake.desired_length

\* C8: an update in which the nose overlaps the fruit makes a new fruit in
\* every play state, and raises desired_length (by 100, clamped) only if the
\* state is Play; any other update that does not reset the snake leaves
\* desired_length as it was.
C8_GrowthOnlyInPlay == [][GrowthStep]_vars

\* C8 happens: the drifting snake of the Space state reached the fruit; a new
\* fruit was made and the budget stayed
C8_Witness ==
    /\ AfterUpdate
    /\ last.from = "Space"
    /\ last.hit
    /\ last.spawned
    /\ snake.desired_length = last.desired0

TransitionStep ==
    play_state' # play_state
    => \/ /\ play_state = "Space" /\ play_state' = "Play"
          /\ last'.ev = "key_down" /\ last'.key = "Space"
       \/ /\ play_state = "Play" /\ play_state' = "Dead"
          /\ last'.ev = "update" /\ last'.self
       \/ /\ play_state = "Dead" /\ play_state' = "Space"
          /\ last'.ev = "update" /\ last'.secs > CooldownSecs

\* C9: the play state changes only from Space to Play on a key-down of the
\* start key, from Play to Dead on an update in which collide_self is true,
\* and from Dead to Space on an update that finds the cooldown over; every
\* other event leaves it as it was.
C9_OnlyThreeTransitions == [][TransitionStep]_vars

\* C9 happens: an update found the cooldown over and took Dead back to Space
C9_Witness ==
    /\ AfterUpdate
    /\ last.from = "Dead"
    /\ last.reset
    /\ play_state = "Space"

\* the pop p lies within the jitter of some entry of the trail
Anchored(p, body) ==
    \E i \in 1 .. Len(body) :
        /\ 2 * (p.pos.x - body[i].pos.x) >= -JitterSpan
        /\ 2 * (p.pos.x - body[i].pos.x) <= JitterSpan
        /\ 2 * (p.pos.y - body[i].pos.y) >= -JitterSpan
        /\ 2 * (p.pos.y - body[i].pos.y) <= JitterSpan

\* C10: an update in Play in which collide_self is true ends in Dead, with the
\* timestamp set to the time of that update and with an explosion built from
\* the trail as that update left it: every pop lies on a segment of it.
C10_DeathSnapshot ==
    AfterUpdate /\ last.from = "Play" /\ last.self
    => /\ play_state = "Dead"
       /\ dead_timer = Some(now)
       /\ explosion # None
       /\ explosion[1].step = 1
       /\ \A k \in 1 .. Len(explosion[1].pops) :
             Anchored(explosion[1].pops[k], snake.body)

\* C10 happens: the snake ran into its trail and an explosion with a pop in it
\* was made
C10_Witness ==
    /\ AfterUpdate
    /\ last.from = "Play"
    /\ last.self
    /\ play_state = "Dead"
    /\ explosion # None
    /\ Len(explosion[1].pops) >= 1

\* C11 as claimed: collide_self is true if and only if some entry of the trail
\* that is not among the 100 newest (index 100 or more, counted from the
\* newest at 0) lies within head_radius + head_radius/2 of the nose.
C11_SkipsHundredAsClaimed ==
    collide_self(snake)
    <=> \E i \in 0 .. Len(snake.body) - 1 :
           /\ i >= SkipCount
           /\ collide(snake.nose, snake.head_radius,
                      snake.body[Len(snake.body) - i].pos,
                      snake.head_radius \div 2)

\* the sum of the speeds of the first n entries of a trail
RECURSIVE SumSpeeds(_, _)
SumSpeeds(body, n) ==
    IF n = 0 THEN 0 ELSE body[n].speed + SumSpeeds(body, n - 1)

\* C12: between updates current_length is the sum of the speeds of the
\* segments in the trail (0 for an empty trail).
C12_LengthIsSumOfSpeeds ==
    snake.current_length = SumSpeeds(snake.body, Len(snake.body))

\* C12 happens: an update pushed a head onto a trail of mixed speeds and
\* popped entries from it
C12_Witness ==
    /\ AfterUpdate
    /\ last.popped >= 1
    /\ Len(snake.body) >= 2
    /\ snake.body[1].speed # snake.body[Len(snake.body)].speed
    /\ snake.current_length > 0
    /\ snake.current_length = SumSpeeds(snake.body, Len(snake.body))

(***************************************************************************)
(* An explosion on its own: a Dead game holding an explosion of one pop,   *)
(* whose clock stands still, so that the explosion lives for as many       *)
(* updates as are wanted.  Each step is the explosion's part of an update  *)
(* followed by a draw; out lists, draw by draw, the frame the pop was      *)
(* drawn in (-1: not drawn).                                               *)
(***************************************************************************)
PopStart(r) ==
    [StateNew(FarFruit) EXCEPT
        !.play_state = "Dead",
        !.dead_timer = Some(0),
        !.explosion = Some(ExplosionNew(<< SnakeNew.head >>, << r >>))]

\* the frame whose batch holds the i-th pop, -1 if none does
Shown(batches, i) ==
    IF \E f \in 0 .. NumImages - 1 : i \in batches[f]
    THEN CHOOSE f \in 0 .. NumImages - 1 : i \in batches[f]
    ELSE -1

InitPop ==
    /\ \E r \in PickedDraws : Is(PopStart(r))
    /\ phase = "events"
    /\ frames = 0
    /\ keys = 0
    /\ arg = None
    /\ out = << >>

PopStep ==
    /\ explosion[1].step < MaxSteps
    /\ Becomes(draw(Animate(G)))
    /\ out' = Append(out, Shown(screen'.batches[1], 1))
    /\ UNCHANGED <<phase, frames, keys, arg>>

SpecPop == InitPop /\ [][PopStep]_vars

\* C13: as the explosion's step advances by one per update, the frame a pop
\* is drawn in never decreases, every frame 0 .. N-1 has been drawn once the
\* step has passed delay + 60, and once the pop has stopped being drawn it is
\* never drawn again.
C13_PlaysOnceInOrder ==
    /\ \A i \in 1 .. Len(out) : \A j \in i .. Len(out) :
          out[i] >= 0 /\ out[j] >= 0 => out[i] <= out[j]
    /\ \A j \in 2 .. Len(out) :
          out[j - 1] >= 0 /\ out[j] < 0
          => \A k \in j .. Len(out) : out[k] < 0
    /\ (explosion # None /\ Len(out) >= 1
          /\ explosion[1].step >= explosion[1].pops[1].delay + PopSteps
        => \A f \in 0 .. NumImages - 1 : \E i \in 1 .. Len(out) : out[i] = f)

\* C13 happens: a pop with a delay of 59 steps was drawn in its last frame and
\* then no more, up to the last step run
C13_Witness ==
    /\ Len(out) = MaxSteps
    /\ explosion[1].pops[1].delay = DelayRange - 1
    /\ \E i \in 1 .. Len(out) : out[i] = NumImages - 1
    /\ out[Len(out)] < 0

\* C14: the update that takes Dead to Space ends with no explosion, no
\* timestamp and a snake as Snake::new makes it: head at the centre of the
\* screen with angle 0 and speed 1.0, an empty trail, current_length 0 and
\* desired_length 100.0.
C14_RestartIsClean ==
    AfterUpdate /\ last.from = "Dead" /\ play_state = "Space"
    => /\ explosion = None
       /\ dead_timer = None
       /\ snake.head = SegmentNew([x |-> ScreenW \div 2, y |-> ScreenH \div 2],
                                  0, InitialSpeed)
       /\ snake.body = << >>
       /\ snake.current_length = 0
       /\ snake.desired_length = DefaultLength

\* C14 happens: three seconds after a snake with a trail of over a hundred
\* segments died, an update took the game back to Space
C14_Witness ==
    /\ AfterUpdate
    /\ last.from = "Dead"
    /\ play_state = "Space"
    /\ last.secs > CooldownSecs
    /\ snake.body = << >>
    /\ explosion = None

(***************************************************************************)
(* The same event loop, started also from a game that has been fed: the    *)
(* snake was started and braked to a stop beside a fruit, and each of its  *)
(* updates picked a fruit up and found the next one at the same place,     *)
(* until the length budget reached its cap.                                *)
(***************************************************************************)
NearFruit == [x |-> 362, y |-> 500, n |-> 3]

Feeds(n) == [i \in 1 .. n |-> [ev |-> "update", key |-> "", r |-> NearFruit]]

Fed ==
    Run(StateNew(NearFruit),
        << Press("Space"), Press("S") >> \o Feeds(FeastFrames))

InitFeast ==
    /\ \E g \in Starts \cup {Fed} : Is(g)
    /\ phase = "events"
    /\ frames = 0
    /\ keys = 0
    /\ arg = None
    /\ out = None

SpecFeast == InitFeast /\ [][Next]_vars

DesiredStep ==
    /\ snake'.desired_length >= MinLength
    /\ snake'.desired_length <= MaxLength
    /\ snake'.desired_length # snake.desired_length
       => /\ last'.ev = "update"
          /\ \/ last'.reset /\ snake'.desired_length = DefaultLength
             \/ /\ last'.hit
                /\ snake'.desired_length =
                      Clamp(snake.desired_length + GrowLength,
                            MinLength, MaxLength)

\* C15: desired_length is within [0, 10000] in every reachable state, however
\* many fruits have been picked up (each adds 100.0), and it changes only in
\* an update that picks a fruit up or that resets the snake.
C15_BudgetCapped ==
    /\ snake.desired_length >= MinLength
    /\ snake.desired_length <= MaxLength
    /\ [][DesiredStep]_vars

\* C15 happens: a fruit was picked up in Play with the budget already at
\* 10000.0, and the budget stayed there
C15_Witness ==
    /\ AfterUpdate
    /\ frames >= 1
    /\ last.from = "Play"
    /\ last.hit
    /\ last.desired0 = MaxLength
    /\ snake.desired_length = MaxLength

\* the k-th entry from the newest end of a trail (the newest is the 0-th)
FromNewest(body, k) == body[Len(body) - k]

LagStep ==
    IF frames' # frames /\ ~last'.reset
    THEN /\ snake'.body # << >> => FromNewest(snake'.body, 0) = snake.head
         /\ \A k \in 1 .. Len(snake'.body) - 1 :
               FromNewest(snake'.body, k) = FromNewest(snake.body, k - 1)
    ELSE last'.reset \/ snake'.body = snake.body

\* C16: after every Snake::update that leaves the trail non-empty, the newest
\* entry of the trail has the position, angle and speed the head had just
\* before that update, and every older entry is an entry the trail already
\* held, unchanged; no other handler changes an entry.
C16_TrailLagsHead == [][LagStep]_vars

\* C16 happens: while accelerating, an update left a newest entry that differs
\* from the head in position and in speed
C16_Witness ==
    /\ AfterUpdate
    /\ frames >= 1
    /\ ~last.reset
    /\ accelerate = "Accelerate"
    /\ Len(snake.body) >= 2
    /\ FromNewest(snake.body, 0).speed = last.speed0
    /\ FromNewest(snake.body, 0).speed # snake.head.speed
    /\ FromNewest(snake.body, 0).pos # snake.head.pos

(***************************************************************************)
(* The same event loop, started also from a game whose snake was started   *)
(* and braked to a stop and then updated HeapFrames times, all within one  *)
(* tick of the clock: the snake ran into its trail on the way and the game *)
(* is Dead, its cooldown not yet over.                                     *)
(***************************************************************************)
Heaped ==
    Run(StateNew(FarFruit),
        << Press("Space"), Press("S") >> \o Updates(HeapFrames))

InitHeap ==
    /\ \E g \in Starts \cup {Heaped} : Is(g)
    /\ phase = "events"
    /\ frames = 0
    /\ keys = 0
    /\ arg = None
    /\ out = None

SpecHeap == InitHeap /\ [][Next]_vars

\* C17 as claimed: for a fixed desired_length the number of segments in the
\* trail stays below a fixed bound; the bound tried is the largest number of
\* moving segments the budget can hold, desired_length / 0.1 (0.1 being the
\* smallest speed above 0 that accelerating and braking reach).
C17_TrailBoundedAsClaimed ==
    Len(snake.body) * SpeedStep <= snake.desired_length

\* C18: at the end of every update and after every key event the timestamp is
\* present exactly when the state is Dead, and so is the explosion; the unwrap
\* of the timestamp in the Dead branch has therefore never failed.
C18_DeadHoldsTimerAndExplosion ==
    /\ dead_timer # None <=> play_state = "Dead"
    /\ explosion # None <=> play_state = "Dead"
    /\ run # "panic"

\* C18 happens: a key went down while the game was Dead, its timestamp and
\* its explosion in place
C18_Witness ==
    /\ last.ev = "key_down"
    /\ last.key = "Space"
    /\ play_state = "Dead"
    /\ dead_timer # None
    /\ explosion # None
    /\ explosion[1].step >= 1

(***************************************************************************)
(* The event loop followed from the update in which a braked snake ran     *)
(* into its trail, for as long as the game is Dead.  The loop goes on      *)
(* calling update and draw while the context runs (weak fairness of both), *)
(* and every update made while Dead reads a clock that has advanced by at  *)
(* least one tick (DtSet).                                                 *)
(***************************************************************************)
Fallen ==
    Run(StateNew(FarFruit),
        << Press("Space"), Press("S") >> \o Updates(StallFrames + 3))

InitLive ==
    /\ Is(Fallen)
    /\ phase = "events"
    /\ frames = 0
    /\ keys = 0
    /\ arg = None
    /\ out = None

UpdateLive ==
    /\ phase = "events" /\ run = "running" /\ frames < LiveFrames
    /\ play_state = "Dead"
    /\ \E in \in UpdateInputs(G) :
          Becomes(StateUpdate(G, in.dt1, in.dt2, in.r, in.rnd))
    /\ frames' = frames + 1
    /\ phase' = "draw"
    /\ UNCHANGED <<keys, arg, out>>

NextLive == KeyDown \/ KeyUp \/ UpdateLive \/ Draw

\* the guard of UpdateLive: an update can be made exactly when it holds
UpdateReady ==
    /\ phase = "events" /\ run = "running" /\ frames < LiveFrames
    /\ play_state = "Dead"

\* weak fairness of UpdateLive, with ENABLED written out as its guard
UpdateFair == []<>(~UpdateReady) \/ []<><<UpdateLive>>_vars

SpecLive ==
    /\ InitLive
    /\ [][NextLive]_vars
    /\ UpdateFair
    /\ WF_vars(Draw)

\* C19: whenever the game is Dead and the loop is running, the game is
\* eventually back in Space (or the loop has been told to stop), whatever keys
\* go down or up meanwhile.
C19_DeadEndsEventually ==
    (play_state = "Dead" /\ run = "running")
    ~> (play_state = "Space" \/ run # "running")

\* C19 happens: keys were pressed while the game was Dead, and an update then
\* took it back to Space
C19_Witness ==
    /\ AfterUpdate
    /\ last.from = "Dead"
    /\ play_state = "Space"
    /\ keys = MaxKeys
    /\ run = "running"
    /\ frames >= 2

\* C20: the loop of Snake::update always ends: no update has found
\* current_length > desired_length with nothing left to pop, and whenever the
\* trail is empty current_length is within the budget.
C20_EvictionTerminates ==
    /\ run # "hung"
    /\ snake.body = << >> => snake.current_length <= snake.desired_length

\* C20 happens: the loop popped the trail empty and stopped there
C20_Witness ==
    /\ AfterUpdate
    /\ ~last.reset
    /\ last.popped >= 1
    /\ snake.body = << >>
    /\ run = "running"

====
